---- MODULE Spec2Model ----
(***************************************************************************)
(* Model of GameDriver (src/driver.py): the turn engine of a turn-based,   *)
(* multi-agent grid game.  One iteration of the loop of GameDriver.play is *)
(* modelled as five consecutive program positions (pc):                    *)
(*   "refresh"  lines 70-93   visibility refresh of the acting agent       *)
(*   "decide"   lines 95-115  agent.step, the assert, the destination      *)
(*   "resolve"  lines 117-131 move resolution                              *)
(*   "interact" lines 133-156 power-up pickup or combat                    *)
(*   "check"    lines 158-164 location commit and termination check        *)
(* and "done" once the loop was left (break or an exception).              *)
(***************************************************************************)
EXTENDS Integers, Sequences, FiniteSets, TLC

\* -------------------------------------------------- configuration, bounds

\* Constructor parameters of GameDriver (lines 35-36) of the modelled run.
Height == 2
Width == 3
NumAgents == 2
num_powerups == 1
num_monsters == 1
\* The constructor's initial_strength.
InitialStrength == 2

\* PowerUp().delta, set in utils.
PowerUpDelta == 2
\* StaticMonster().strength ranges over 0..MaxMonsterStrength.
MaxMonsterStrength == 1
\* np.random.random() ranges over {0/DrawDen, ..., (DrawDen-1)/DrawDen}.
DrawDen == 4
\* Number of generated terrain layouts Init chooses from.
NumLayouts == 1

\* ------------------------------------------------------- tiles and cells

Unknown == "Unknown"
Wall == "Wall"
Terrains == {"TerrainA", "TerrainB", "TerrainC"}
Tiles == Terrains \cup {Wall}

\* utils.tile_cost: the movement cost of each non-Wall terrain.
tile_cost(t) ==
  CASE t = "TerrainA" -> 1
    [] t = "TerrainB" -> 2
    [] t = "TerrainC" -> 3

Directions == {"NORTH", "WEST", "SOUTH", "EAST"}
\* A return value of agent.step that is no utils.Directions member.
Invalid == "INVALID"

Agents == 0 .. (NumAgents - 1)
Cells == (0 .. (Height - 1)) \X (0 .. (Width - 1))

InBounds(loc) ==
  /\ 0 <= loc[1] /\ loc[1] < Height
  /\ 0 <= loc[2] /\ loc[2] < Width

\* Row-major position of a cell, the order of np.where.
RowMajor(c) == c[1] * Width + c[2]

PowerUp(d) == [kind |-> "PowerUp", val |-> d]
StaticMonster(s) == [kind |-> "StaticMonster", val |-> s]
Boss == [kind |-> "Boss", val |-> 0]

\* del d[k] on a dict modelled as a function.
Remove(d, k) == [c \in (DOMAIN d) \ {k} |-> d[c]]

EmptyDict == [c \in {} |-> Boss]

\* Value of a location local that was not assigned yet.
NoLoc == <<0, 0>>

VARIABLES
  game_map,         \* self.game_map: Cells -> Tiles
  objects,          \* self.objects: dict location -> object
  goal_loc,         \* self.goal_loc
  initial_strength, \* self.initial_strength
  agent_maps,       \* self.agent_maps[idx]: Cells -> Tiles \cup {Unknown}
  agent_objects,    \* self.agent_objects[idx]: dict location -> object
  agent_locations,  \* self.agent_locations[idx]
  agent_strengths,  \* self.agent_strengths[idx]
  step,             \* the loop counter of enumerate(cycle(self.agents))
  agent,            \* the loop variable agent, as its index in self.agents
  pc,               \* position inside the loop body
  current_loc,      \* local current_loc
  direction,        \* local direction
  dst_loc,          \* local dst_loc
  final_loc,        \* local final_loc
  win_chance,       \* local win_chance as <<numerator, denominator>>
  draw,             \* numerator of the value np.random.random() returned
  event,            \* branch of lines 133-156 the step took
  status,           \* how the run ended: what play printed or raised
  step_start,       \* history: the game state when the current step began
  step_args,        \* history: the arguments of the step's agent.step call
  began_near        \* history: the cells next to where an agent began a turn

vars == <<game_map, objects, goal_loc, initial_strength, agent_maps,
          agent_objects, agent_locations, agent_strengths, step, pc,
          current_loc, direction, dst_loc, final_loc, win_chance, draw,
          event, status, step_start, agent, step_args, began_near>>

\* The game state a step starts from, as line 70 finds it.
Snapshot ==
  [locations |-> agent_locations, strengths |-> agent_strengths,
   maps |-> agent_maps, known |-> agent_objects, world |-> objects]

\* idx = step % len(self.agents)
idx == step % NumAgents

\* cycle(self.agents): the agent yielded after agent a.
NextAgent(a) == (a + 1) % NumAgents

\* Value of step_args while agent.step was not called in the step.
NoArguments == [agent |-> 0]

\* ------------------------------------------------------------------ Init

\* Terrain layouts: np.random.choice may draw any map; Init enumerates
\* NumLayouts of them, each a row-major pattern repeated over the grid.
LayoutPattern(k) ==
  CASE k % 3 = 1 -> <<"TerrainA", "TerrainA", "TerrainB", Wall, "TerrainA", "TerrainC">>
    [] k % 3 = 2 -> <<Wall, "TerrainA", "TerrainA", "TerrainB", "TerrainA", "TerrainA", "TerrainC">>
    [] k % 3 = 0 -> <<"TerrainC", "TerrainA", Wall, "TerrainA", "TerrainB">>

Layout(k) ==
  [c \in Cells |-> LayoutPattern(k)[(RowMajor(c) % Len(LayoutPattern(k))) + 1]]

NonWall(m) == {c \in Cells : m[c] # Wall}

\* nonwall_indices[.][0]: the first non-wall cell in row-major order.
FirstNonWall(m) ==
  CHOOSE c \in NonWall(m) : \A d \in NonWall(m) : RowMajor(c) <= RowMajor(d)

\* The dict built by lines 182-192: power-ups and monsters on distinct
\* non-wall cells, then the boss written at the first non-wall cell.
PlacedObjects(pu, mo, delta, strength, goal) ==
  [c \in {pu, mo, goal} |->
     IF c = goal THEN Boss
     ELSE IF c = pu THEN PowerUp(delta)
     ELSE StaticMonster(strength)]

Init ==
  /\ \E k \in 1 .. NumLayouts : game_map = Layout(k)
  /\ Cardinality(NonWall(game_map)) >= num_powerups + num_monsters + 1
  /\ Cardinality(NonWall(game_map)) >= NumAgents + 1
  /\ goal_loc = FirstNonWall(game_map)
  /\ \E pu \in NonWall(game_map), mo \in NonWall(game_map),
        strength \in 0 .. MaxMonsterStrength :
       /\ pu # mo
       /\ objects = PlacedObjects(pu, mo, PowerUpDelta, strength, goal_loc)
  /\ initial_strength = InitialStrength
  /\ agent_locations \in [Agents -> NonWall(game_map) \ {goal_loc}]
  /\ \A a, b \in Agents : a # b => agent_locations[a] # agent_locations[b]
  /\ agent_strengths = [a \in Agents |-> initial_strength]
  /\ agent_maps = [a \in Agents |-> [c \in Cells |-> Unknown]]
  /\ agent_objects = [a \in Agents |-> EmptyDict]
  /\ step = 0
  /\ pc = "refresh"
  /\ current_loc = NoLoc
  /\ direction = "EAST"
  /\ dst_loc = NoLoc
  /\ final_loc = NoLoc
  /\ win_chance = <<0, 1>>
  /\ draw = 0
  /\ event = "none"
  /\ status = "Running"
  /\ step_start = Snapshot
  /\ agent = 0
  /\ step_args = NoArguments
  /\ began_near = [a \in Agents |-> {}]

\* ------------------------------------------------------- visibility refresh

\* Cells at distance one (king's move) of loc: the eight neighbours as the
\* claims state them, written apart from Neighbours; began_near is kept
\* with it.
C6_Adjacent(c, loc) ==
  /\ c # loc
  /\ c[1] - loc[1] \in {-1, 0, 1}
  /\ c[2] - loc[2] \in {-1, 0, 1}

\* Variant of Neighbours: the continue of lines 82-83 is missing, so the
\* offset (0, 0) is visited like the other eight.
NeighboursAndSelf(loc) ==
  {<<loc[1] + i, loc[2] + j>> : i \in {-1, 0, 1}, j \in {-1, 0, 1}}

\* Variant of Neighbours: the four orthogonal neighbours only.
NeighboursOrthogonal(loc) ==
  {<<loc[1] - 1, loc[2]>>, <<loc[1] + 1, loc[2]>>,
   <<loc[1], loc[2] - 1>>, <<loc[1], loc[2] + 1>>}

\* product([-1, 0, 1], [-1, 0, 1]) without (0, 0), applied to loc.
Neighbours(loc) ==
  {<<loc[1] + i, loc[2] + j>> : i \in {-1, 0, 1}, j \in {-1, 0, 1}} \ {loc}

\* Variant of RevealedMap: the private map is rebuilt from Unknown on every
\* refresh (the np.full of line 208 run inside the loop).
RevealedMapRebuilt(m, loc) ==
  [c \in Cells |->
     IF c \in Neighbours(loc) /\ InBounds(c) THEN game_map[c] ELSE Unknown]

\* Lines 87-90: reveal the still-unknown in-bounds neighbours of loc.
RevealedMap(m, loc) ==
  [c \in Cells |->
     IF c \in Neighbours(loc) /\ InBounds(c) /\ m[c] = Unknown
     THEN game_map[c] ELSE m[c]]

\* Lines 91-93: copy every object next to loc into the private dict.
SeenObjects(ao, loc) ==
  [c \in (DOMAIN ao) \cup (Neighbours(loc) \cap DOMAIN objects) |->
     IF c \in Neighbours(loc) \cap DOMAIN objects THEN objects[c] ELSE ao[c]]

\* Variant of Refresh: lines 81-93 run for every agent around its own
\* location, not only for the agent whose turn it is.
RefreshEveryAgent ==
  /\ pc = "refresh"
  /\ current_loc' = agent_locations[idx]
  /\ agent_maps' = [a \in Agents |->
       RevealedMap(agent_maps[a], agent_locations[a])]
  /\ agent_objects' = [a \in Agents |->
       SeenObjects(agent_objects[a], agent_locations[a])]
  /\ pc' = "decide"
  /\ began_near' = [began_near EXCEPT ![idx] =
       @ \cup {c \in Cells : C6_Adjacent(c, agent_locations[idx])}]
  /\ UNCHANGED <<game_map, objects, goal_loc, initial_strength,
                 agent_locations, agent_strengths, step, direction, dst_loc,
                 final_loc, win_chance, draw, event, status, step_start,
                 agent, step_args>>

Refresh ==
  /\ pc = "refresh"
  /\ current_loc' = agent_locations[idx]
  /\ agent_maps' = [agent_maps EXCEPT
       ![idx] = RevealedMap(agent_maps[idx], agent_locations[idx])]
  /\ agent_objects' = [agent_objects EXCEPT
       ![idx] = SeenObjects(agent_objects[idx], agent_locations[idx])]
  /\ pc' = "decide"
  /\ began_near' = [began_near EXCEPT ![idx] =
       @ \cup {c \in Cells : C6_Adjacent(c, agent_locations[idx])}]
  /\ UNCHANGED <<game_map, objects, goal_loc, initial_strength,
                 agent_locations, agent_strengths, step, direction, dst_loc,
                 final_loc, win_chance, draw, event, status, step_start,
                 agent, step_args>>

\* ------------------------------------------------------------- decision

\* Lines 108-115: the destination of a move from loc in direction d.
Destination(loc, d) ==
  IF d = "NORTH" THEN <<loc[1] - 1, loc[2]>>
  ELSE IF d = "WEST" THEN <<loc[1], loc[2] - 1>>
  ELSE IF d = "SOUTH" THEN <<loc[1] + 1, loc[2]>>
  ELSE <<loc[1], loc[2] + 1>>

\* Variant of StepArguments: the private map passed is self.agent_maps[0].
StepArgumentsFirstMap ==
  [agent |-> agent,
   location |-> agent_locations[idx],
   strength |-> agent_strengths[idx],
   game_map |-> agent_maps[0],
   map_objects |-> agent_objects[idx]]

\* Lines 95-99: the receiver and the keyword arguments of agent.step.
StepArguments ==
  [agent |-> agent,
   location |-> agent_locations[idx],
   strength |-> agent_strengths[idx],
   game_map |-> agent_maps[idx],
   map_objects |-> agent_objects[idx]]

\* Variant of Decide: the assert of line 105 sits after move resolution, so
\* an invalid value is charged like a move (the else of line 114) first.
DecideAssertLate ==
  /\ pc = "decide"
  /\ step_args' = StepArguments
  /\ \E d \in Directions \cup {Invalid} :
       /\ direction' = d
       /\ IF d \in Directions
          THEN /\ dst_loc' = Destination(current_loc, d)
               /\ pc' = "resolve"
               /\ UNCHANGED <<status, agent_strengths>>
          ELSE /\ dst_loc' = dst_loc
               /\ pc' = "done"
               /\ status' = "AssertionError"
               /\ agent_strengths' = [agent_strengths EXCEPT ![idx] = @ - 1]
  /\ UNCHANGED <<game_map, objects, goal_loc, initial_strength, agent_maps,
                 agent_objects, agent_locations, step,
                 current_loc, final_loc, win_chance, draw, event, step_start,
                 agent, began_near>>

\* Lines 95-115: agent.step returns d; the assert of line 105 raises
\* AssertionError unless d is a utils.Directions member.
Decide ==
  /\ pc = "decide"
  /\ step_args' = StepArguments
  /\ \E d \in Directions \cup {Invalid} :
       /\ direction' = d
       /\ IF d \in Directions
          THEN /\ dst_loc' = Destination(current_loc, d)
               /\ pc' = "resolve"
               /\ status' = status
          ELSE /\ dst_loc' = dst_loc
               /\ pc' = "done"
               /\ status' = "AssertionError"
  /\ UNCHANGED <<game_map, objects, goal_loc, initial_strength, agent_maps,
                 agent_objects, agent_locations, agent_strengths, step,
                 current_loc, final_loc, win_chance, draw, event, step_start,
                 agent, began_near>>

\* -------------------------------------------------------- move resolution

\* Variant of Blocked: the cost test of line 124 is missing, so a cell that
\* costs more than the agent has is entered.
BlockedIgnoringCost(r, dst) ==
  \/ ~InBounds(dst)
  \/ game_map[dst] = Wall

\* Variant of Blocked: line 124 compares with <= , so a destination whose
\* cost equals the strength is refused.
BlockedAtEqualCost(r, dst) ==
  \/ ~InBounds(dst)
  \/ game_map[dst] = Wall
  \/ r <= tile_cost(game_map[dst])

\* Lines 117-129: the branch conditions under which the agent stays.
Blocked(r, dst) ==
  \/ ~InBounds(dst)
  \/ game_map[dst] = Wall
  \/ r < tile_cost(game_map[dst])

\* Variant of MoveStrength: a refused move is refunded (+= 1 at lines 120,
\* 123 and 126).
MoveStrengthRefund(r, dst) ==
  IF Blocked(r, dst) THEN r + 1 ELSE r - tile_cost(game_map[dst])

\* Lines 119-131: the strength after move resolution.
MoveStrength(r, dst) ==
  IF Blocked(r, dst) THEN r - 1 ELSE r - tile_cost(game_map[dst])

\* Variant of ResolveMove: the wall branch of lines 121-123 charges 1 but
\* lets the agent through (final_loc = dst_loc).
ResolveMoveThroughWalls ==
  /\ pc = "resolve"
  /\ final_loc' = IF InBounds(dst_loc) /\ game_map[dst_loc] = Wall
                  THEN dst_loc
                  ELSE IF Blocked(agent_strengths[idx], dst_loc)
                  THEN current_loc ELSE dst_loc
  /\ agent_strengths' = [agent_strengths EXCEPT
       ![idx] = MoveStrength(agent_strengths[idx], dst_loc)]
  /\ pc' = "interact"
  /\ UNCHANGED <<game_map, objects, goal_loc, initial_strength, agent_maps,
                 agent_objects, agent_locations, step, current_loc, direction,
                 dst_loc, win_chance, draw, event, status, step_start,
                 agent, step_args, began_near>>

ResolveMove ==
  /\ pc = "resolve"
  /\ final_loc' = IF Blocked(agent_strengths[idx], dst_loc)
                  THEN current_loc ELSE dst_loc
  /\ agent_strengths' = [agent_strengths EXCEPT
       ![idx] = MoveStrength(agent_strengths[idx], dst_loc)]
  /\ pc' = "interact"
  /\ UNCHANGED <<game_map, objects, goal_loc, initial_strength, agent_maps,
                 agent_objects, agent_locations, step, current_loc, direction,
                 dst_loc, win_chance, draw, event, status, step_start,
                 agent, step_args, began_near>>

\* ----------------------------------------------------- object interaction

\* Variant of Purged: the private dicts are left as they are.
PurgedNothing(ao, loc) == ao

\* Lines 137-139 and 151-153: the loop runs over every agent index i but
\* tests and deletes in self.agent_objects[idx], the acting agent's dict.
Purged(ao, loc) ==
  [a \in Agents |->
     IF a = idx /\ loc \in DOMAIN ao[a] THEN Remove(ao[a], loc) ELSE ao[a]]

\* Variant of DrawWins: line 145 compares with >= .
DrawWinsAtEqual(d, r, s) == d * (r + s) >= r * DrawDen

\* Line 145: np.random.random() > win_chance with win_chance = r / (r + s)
\* and the draw d / DrawDen, for r + s > 0.
DrawWins(d, r, s) == d * (r + s) > r * DrawDen

PickUp ==
  /\ final_loc \in DOMAIN objects
  /\ objects[final_loc].kind = "PowerUp"
  /\ agent_strengths' = [agent_strengths EXCEPT
       ![idx] = @ + objects[final_loc].val]
  /\ objects' = Remove(objects, final_loc)
  /\ agent_objects' = Purged(agent_objects, final_loc)
  /\ event' = "pickup"
  /\ pc' = "check"
  /\ UNCHANGED <<win_chance, draw, status>>

\* Lines 142-144 with r + s = 0: the division raises ZeroDivisionError.
FightError ==
  /\ final_loc \in DOMAIN objects
  /\ objects[final_loc].kind = "StaticMonster"
  /\ agent_strengths[idx] + objects[final_loc].val = 0
  /\ event' = "error"
  /\ pc' = "done"
  /\ status' = "ZeroDivisionError"
  /\ UNCHANGED <<agent_strengths, objects, agent_objects, win_chance, draw>>

\* Variant of Fight: the del of line 149 and the purge run after the
\* if/else, so a lost combat removes the monster as well.
FightRemovesAlways ==
  /\ final_loc \in DOMAIN objects
  /\ objects[final_loc].kind = "StaticMonster"
  /\ agent_strengths[idx] + objects[final_loc].val # 0
  /\ win_chance' = <<agent_strengths[idx],
                     agent_strengths[idx] + objects[final_loc].val>>
  /\ \E d \in 0 .. (DrawDen - 1) :
       /\ draw' = d
       /\ IF DrawWins(d, agent_strengths[idx], objects[final_loc].val)
          THEN /\ agent_strengths' = [agent_strengths EXCEPT
                    ![idx] = initial_strength + objects[final_loc].val]
               /\ event' = "win"
          ELSE /\ agent_strengths' = [agent_strengths EXCEPT ![idx] = 0]
               /\ event' = "loss"
  /\ objects' = Remove(objects, final_loc)
  /\ agent_objects' = Purged(agent_objects, final_loc)
  /\ pc' = "check"
  /\ UNCHANGED status

Fight ==
  /\ final_loc \in DOMAIN objects
  /\ objects[final_loc].kind = "StaticMonster"
  /\ agent_strengths[idx] + objects[final_loc].val # 0
  /\ win_chance' = <<agent_strengths[idx],
                     agent_strengths[idx] + objects[final_loc].val>>
  /\ \E d \in 0 .. (DrawDen - 1) :
       /\ draw' = d
       /\ IF DrawWins(d, agent_strengths[idx], objects[final_loc].val)
          THEN /\ agent_strengths' = [agent_strengths EXCEPT
                    ![idx] = initial_strength + objects[final_loc].val]
               /\ objects' = Remove(objects, final_loc)
               /\ agent_objects' = Purged(agent_objects, final_loc)
               /\ event' = "win"
          ELSE /\ agent_strengths' = [agent_strengths EXCEPT ![idx] = 0]
               /\ UNCHANGED <<objects, agent_objects>>
               /\ event' = "loss"
  /\ pc' = "check"
  /\ UNCHANGED status

NoInteraction ==
  /\ \/ final_loc \notin DOMAIN objects
     \/ /\ final_loc \in DOMAIN objects
        /\ objects[final_loc].kind = "Boss"
  /\ event' = "none"
  /\ pc' = "check"
  /\ UNCHANGED <<agent_strengths, objects, agent_objects, win_chance, draw,
                 status>>

Interact ==
  /\ pc = "interact"
  /\ (PickUp \/ FightError \/ Fight \/ NoInteraction)
  /\ UNCHANGED <<game_map, goal_loc, initial_strength, agent_maps,
                 agent_locations, step, current_loc, direction, dst_loc,
                 final_loc, step_start, agent, step_args, began_near>>

\* ----------------------------------------------------- termination check

\* Variant of Verdict: the goal test of line 162 comes first.
VerdictGoalFirst(r, loc) ==
  IF loc = goal_loc THEN "AgentWon"
  ELSE IF r <= 0 THEN "AgentDied"
  ELSE "Running"

\* Lines 159-164: what the step prints before it breaks, if it breaks.
Verdict(r, loc) ==
  IF r <= 0 THEN "AgentDied"
  ELSE IF loc = goal_loc THEN "AgentWon"
  ELSE "Running"

\* Variant of Breaks: a death does not leave the loop (no break at line 161).
BreaksOnWinOnly(r, loc) == r > 0 /\ loc = goal_loc

\* Lines 161 and 164: the loop is left exactly when a verdict was printed.
Breaks(r, loc) == Verdict(r, loc) # "Running"

\* Variant of CheckTermination: line 158 commits final_loc at index 0, the
\* first agent's slot, whoever acted.
CheckTerminationFirstSlot ==
  /\ pc = "check"
  /\ agent_locations' = [agent_locations EXCEPT ![0] = final_loc]
  /\ status' = Verdict(agent_strengths[idx], final_loc)
  /\ IF Breaks(agent_strengths[idx], final_loc)
     THEN /\ pc' = "done"
          /\ UNCHANGED <<step, current_loc, direction, dst_loc, final_loc,
                         win_chance, draw, event, step_start, agent,
                         step_args>>
     ELSE /\ pc' = "refresh"
          /\ step' = step + 1
          /\ agent' = NextAgent(agent)
          /\ step_args' = NoArguments
          /\ current_loc' = NoLoc
          /\ direction' = "EAST"
          /\ dst_loc' = NoLoc
          /\ final_loc' = NoLoc
          /\ win_chance' = <<0, 1>>
          /\ draw' = 0
          /\ event' = "none"
          /\ step_start' = [Snapshot EXCEPT !.locations = agent_locations']
  /\ UNCHANGED <<game_map, objects, goal_loc, initial_strength, agent_maps,
                 agent_objects, agent_strengths, began_near>>

\* The locals of the loop body are dead at the loop head (each is assigned
\* before it is read again): the back edge sets them to their initial
\* values, and the history to the state the next step starts from.
CheckTermination ==
  /\ pc = "check"
  /\ agent_locations' = [agent_locations EXCEPT ![idx] = final_loc]
  /\ status' = Verdict(agent_strengths[idx], final_loc)
  /\ IF Breaks(agent_strengths[idx], final_loc)
     THEN /\ pc' = "done"
          /\ UNCHANGED <<step, current_loc, direction, dst_loc, final_loc,
                         win_chance, draw, event, step_start, agent,
                         step_args>>
     ELSE /\ pc' = "refresh"
          /\ step' = step + 1
          /\ agent' = NextAgent(agent)
          /\ step_args' = NoArguments
          /\ current_loc' = NoLoc
          /\ direction' = "EAST"
          /\ dst_loc' = NoLoc
          /\ final_loc' = NoLoc
          /\ win_chance' = <<0, 1>>
          /\ draw' = 0
          /\ event' = "none"
          /\ step_start' = [Snapshot EXCEPT !.locations = agent_locations']
  /\ UNCHANGED <<game_map, objects, goal_loc, initial_strength, agent_maps,
                 agent_objects, agent_strengths, began_near>>

Next ==
  \/ Refresh
  \/ Decide
  \/ ResolveMove
  \/ Interact
  \/ CheckTermination

Spec == Init /\ [][Next]_vars

\* play runs in one thread and nothing in the loop body waits: a step that
\* can be taken is taken, until a break or an exception leaves the loop.
FairSpec == Spec /\ WF_vars(Next)

\* ================================================================ claims

\* The acting agent stands on a StaticMonster / a PowerUp when the object
\* interaction of the step starts.
OnMonster ==
  /\ pc = "interact"
  /\ final_loc \in DOMAIN objects
  /\ objects[final_loc].kind = "StaticMonster"

OnPowerUp ==
  /\ pc = "interact"
  /\ final_loc \in DOMAIN objects
  /\ objects[final_loc].kind = "PowerUp"

\* C1: object removal is retracted globally: in every reachable state every
\* key of every agent's private object map is a key of the authoritative
\* object map.
C1_GlobalRetraction ==
  \A a \in Agents : DOMAIN agent_objects[a] \subseteq DOMAIN objects

\* The one-cell shift of C2: North row-1, South row+1, West col-1, East col+1.
C2_Shift(loc, d) ==
  CASE d = "NORTH" -> <<loc[1] - 1, loc[2]>>
    [] d = "SOUTH" -> <<loc[1] + 1, loc[2]>>
    [] d = "WEST" -> <<loc[1], loc[2] - 1>>
    [] d = "EAST" -> <<loc[1], loc[2] + 1>>

\* C2: move resolution of the acting agent with pre-move resource r at loc
\* and dst = loc shifted by the chosen direction applies the first matching
\* rule: dst out of bounds, dst a Wall, or cost(dst) > r: the agent stays
\* and pays 1; otherwise it moves to dst and pays cost(dst) (so cost(dst) = r
\* is affordable and leaves 0).  The location resolved is the one the step
\* commits.
C2_MoveResolution ==
  [][/\ (pc = "resolve" /\ pc' # pc) =>
          LET r == agent_strengths[idx]
              loc == agent_locations[idx]
              dst == C2_Shift(loc, direction)
              stays == final_loc' = loc /\ agent_strengths'[idx] = r - 1
          IN  IF ~(dst \in Cells) THEN stays
              ELSE IF game_map[dst] = Wall THEN stays
              ELSE IF tile_cost(game_map[dst]) > r THEN stays
              ELSE /\ final_loc' = dst
                   /\ agent_strengths'[idx] = r - tile_cost(game_map[dst])
     /\ (pc = "check" /\ pc' # pc) => agent_locations'[idx] = final_loc
    ]_vars

\* C2 witness: a move onto a cell whose cost equals the resource was
\* resolved as a move and left resource 0.
C2_Witness ==
  /\ pc = "interact"
  /\ final_loc = dst_loc
  /\ final_loc # current_loc
  /\ step_start.strengths[idx] = tile_cost(game_map[dst_loc])
  /\ agent_strengths[idx] = 0

\* C3: combat is a function of the draw: with resource r > 0 or strength
\* s > 0, winChance = r/(r+s) and the agent wins iff draw > winChance; on a
\* win its resource becomes initialResource + s and the monster leaves the
\* authoritative object map, otherwise its resource becomes 0 and the
\* monster stays.
C3_CombatByDraw ==
  [][(/\ OnMonster
      /\ agent_strengths[idx] + objects[final_loc].val > 0
      /\ pc' # pc) =>
       LET r == agent_strengths[idx]
           s == objects[final_loc].val
       IN  /\ win_chance' = <<r, r + s>>
           /\ IF draw' * (r + s) > DrawDen * r
              THEN /\ agent_strengths'[idx] = initial_strength + s
                   /\ final_loc \notin DOMAIN objects'
              ELSE /\ agent_strengths'[idx] = 0
                   /\ final_loc \in DOMAIN objects'
                   /\ objects'[final_loc] = objects[final_loc]
    ]_vars

\* C3 witness: a combat entered with a positive resource against a monster
\* of positive strength was won on a draw above winChance.
C3_Witness ==
  /\ pc = "check"
  /\ event = "win"
  /\ win_chance[1] > 0
  /\ win_chance[2] > win_chance[1]
  /\ draw * win_chance[2] > DrawDen * win_chance[1]
  /\ agent_strengths[idx] = initial_strength + (win_chance[2] - win_chance[1])
  /\ final_loc \notin DOMAIN objects

\* C4: an agent whose resource is 0 when combat is resolved always loses,
\* whatever the monster's strength s >= 0 and the draw: its resource stays
\* 0, the monster is not removed and no error is raised (the step goes on to
\* the termination check, which ends the game AgentDied).
C4_ZeroResourceLoses ==
  [][(OnMonster /\ agent_strengths[idx] = 0 /\ pc' # pc) =>
       /\ agent_strengths'[idx] = 0
       /\ final_loc \in DOMAIN objects'
       /\ pc' = "check"
       /\ status' = "Running"
    ]_vars

\* C5: an agent with resource > 0 that fights a StaticMonster of strength 0
\* always wins: for every draw the monster is removed and the resource
\* becomes initialResource + 0.
C5_ZeroStrengthMonsterLoses ==
  [][(OnMonster /\ agent_strengths[idx] > 0 /\ objects[final_loc].val = 0
      /\ pc' # pc) =>
       /\ final_loc \notin DOMAIN objects'
       /\ agent_strengths'[idx] = initial_strength
    ]_vars

\* C6 as stated: when the decision function returns an invalid value the
\* run aborts before any state mutation of the step: the acting agent's
\* location, resource, private map and private objects and the
\* authoritative object map are as they were when the step began.
C6_AbortBeforeAnyMutation ==
  status = "AssertionError" =>
    /\ agent_locations[idx] = step_start.locations[idx]
    /\ agent_strengths[idx] = step_start.strengths[idx]
    /\ agent_maps[idx] = step_start.maps[idx]
    /\ agent_objects[idx] = step_start.known[idx]
    /\ objects = step_start.world

\* C6 amended: when the decision function returns an invalid value the run
\* aborts after the step's visibility refresh and before any other state
\* mutation: every agent's location and resource, the authoritative object
\* map and the other agents' private knowledge are as they were when the
\* step began; the acting agent's private map and private objects are those
\* of the step's start with the adjacent cells revealed and the adjacent
\* objects recorded.
C6_AbortAfterRefreshOnly ==
  status = "AssertionError" =>
    LET loc == step_start.locations[idx]
        was == step_start.maps[idx]
        knew == step_start.known[idx]
    IN  /\ pc = "done"
        /\ agent_locations = step_start.locations
        /\ agent_strengths = step_start.strengths
        /\ objects = step_start.world
        /\ \A a \in Agents \ {idx} :
             /\ agent_maps[a] = step_start.maps[a]
             /\ agent_objects[a] = step_start.known[a]
        /\ \A c \in Cells :
             agent_maps[idx][c] =
               IF was[c] = Unknown /\ C6_Adjacent(c, loc)
               THEN game_map[c] ELSE was[c]
        /\ DOMAIN agent_objects[idx] =
             DOMAIN knew \cup {c \in DOMAIN objects : C6_Adjacent(c, loc)}
        /\ \A c \in DOMAIN agent_objects[idx] :
             agent_objects[idx][c] =
               IF c \in DOMAIN objects /\ C6_Adjacent(c, loc)
               THEN objects[c] ELSE knew[c]

\* C6 witness: a run aborted on an invalid decision after the refresh of
\* that step had changed the acting agent's private map and objects.
C6_Witness ==
  /\ status = "AssertionError"
  /\ direction = Invalid
  /\ agent_maps[idx] # step_start.maps[idx]
  /\ agent_objects[idx] # step_start.known[idx]

\* C7: the termination check uses the acting agent's resource after move
\* resolution and object interaction: resource <= 0 gives AgentDied for that
\* agent even on goalLocation; otherwise a final location equal to
\* goalLocation gives AgentWon for that agent; otherwise the game stays
\* Running and the next agent acts.
C7_TerminationCheck ==
  [][(pc = "check" /\ pc' # pc) =>
       LET r == agent_strengths[idx]
       IN  /\ agent_locations'[idx] = final_loc
           /\ agent_strengths'[idx] = r
           /\ IF r <= 0
              THEN status' = "AgentDied" /\ pc' = "done" /\ step' = step
              ELSE IF final_loc = goal_loc
              THEN status' = "AgentWon" /\ pc' = "done" /\ step' = step
              ELSE /\ status' = "Running"
                   /\ pc' = "refresh"
                   /\ step' = step + 1
    ]_vars

\* C7 witness: an agent reached goalLocation with resource 0 and the game
\* ended AgentDied.
C7_Witness ==
  /\ status = "AgentDied"
  /\ pc = "done"
  /\ agent_locations[idx] = goal_loc
  /\ agent_locations[idx] # step_start.locations[idx]
  /\ agent_strengths[idx] = 0

\* C8: AgentDied and AgentWon are absorbing: once either is reached no
\* further step is taken and nothing changes afterward.
C8_TerminalAbsorbing ==
  [][(status \in {"AgentDied", "AgentWon"}) => (vars' = vars)]_vars

\* C8 witness: the game ended on the first death while another agent was
\* still alive.
C8_Witness ==
  /\ status = "AgentDied"
  /\ pc = "done"
  /\ agent_strengths[idx] <= 0
  /\ \E a \in Agents \ {idx} : agent_strengths[a] > 0

\* C9: when the acting agent's final cell holds a PowerUp with value delta,
\* its resource after the step is its resource after move resolution plus
\* delta, and the power-up is removed from the authoritative object map and
\* from the acting agent's private object map.
C9_PowerUpPickup ==
  [][/\ (OnPowerUp /\ pc' # pc) =>
          /\ agent_strengths'[idx] =
               agent_strengths[idx] + objects[final_loc].val
          /\ final_loc \notin DOMAIN objects'
          /\ final_loc \notin DOMAIN agent_objects'[idx]
          /\ pc' = "check"
     /\ (pc = "check" /\ pc' # pc) => agent_strengths' = agent_strengths
    ]_vars

\* C9 witness: an agent moved onto a power-up it had seen and ended the
\* interaction with start resource - terrain cost + delta.
C9_Witness ==
  /\ pc = "check"
  /\ event = "pickup"
  /\ final_loc # current_loc
  /\ agent_strengths[idx] =
       step_start.strengths[idx] - tile_cost(game_map[final_loc]) + PowerUpDelta
  /\ final_loc \in DOMAIN step_start.world
  /\ final_loc \notin DOMAIN objects
  /\ final_loc \notin DOMAIN agent_objects[idx]

\* C10: fog of war is monotonic: a private-map cell only ever changes from
\* Unknown to a revealed terrain, and a revealed cell never changes again.
C10_FogMonotonic ==
  [][\A a \in Agents : \A c \in Cells :
       agent_maps'[a][c] # agent_maps[a][c] =>
         /\ agent_maps[a][c] = Unknown
         /\ agent_maps'[a][c] \in Tiles
    ]_vars

\* C10 witness: a later refresh of an agent that had moved revealed new
\* cells while the cells revealed before kept their values.
C10_Witness ==
  /\ pc = "decide"
  /\ step >= NumAgents
  /\ \E c \in Cells :
       /\ step_start.maps[idx][c] # Unknown
       /\ ~C6_Adjacent(c, current_loc)
       /\ agent_maps[idx][c] = step_start.maps[idx][c]
  /\ \E c \in Cells :
       /\ step_start.maps[idx][c] = Unknown
       /\ agent_maps[idx][c] # Unknown

\* C11: turns are round-robin in creation order: the agent acting at step k
\* is agent k mod n, one agent acts per step (the others keep the location
\* and resource the step began with), and the decision function invoked is
\* that agent's, called with that agent's own location, resource, private
\* map and private objects.
C11_RoundRobin ==
  LET k == step % NumAgents
  IN  /\ agent = k
      /\ \A a \in Agents \ {k} :
            /\ agent_locations[a] = step_start.locations[a]
            /\ agent_strengths[a] = step_start.strengths[a]
      /\ pc \in {"resolve", "interact", "check"} =>
            /\ step_args.agent = k
            /\ step_args.location = step_start.locations[k]
            /\ step_args.strength = step_start.strengths[k]
            /\ step_args.game_map = agent_maps[k]
      /\ pc \in {"resolve", "interact"} =>
            step_args.map_objects = agent_objects[k]

\* C11 witness: the order wrapped around: the first agent decided again,
\* after every agent had a turn, on a private map unlike the others'.
C11_Witness ==
  /\ pc = "resolve"
  /\ step >= NumAgents
  /\ agent = 0
  /\ step_args.location = agent_locations[0]
  /\ \A a \in Agents \ {0} : agent_maps[a] # step_args.game_map

\* C12: the visibility refresh of a step runs before the step's decision
\* and touches the acting agent's knowledge only: when the decision is about
\* to be invoked, every other agent's private map and private objects are
\* what they were when the step began, and while the refresh is still to run
\* the decision function was not called in the step.
C12_RefreshFrame ==
  /\ pc = "refresh" => step_args = NoArguments
  /\ pc = "decide" =>
        \A a \in Agents \ {idx} :
          /\ agent_maps[a] = step_start.maps[a]
          /\ agent_objects[a] = step_start.known[a]

\* C12 witness: the refresh changed the acting agent's map and objects while
\* another agent stands next to a cell still Unknown to it and next to an
\* object it has not recorded.
C12_Witness ==
  /\ pc = "decide"
  /\ agent_maps[idx] # step_start.maps[idx]
  /\ agent_objects[idx] # step_start.known[idx]
  /\ \E a \in Agents \ {idx} :
        /\ \E c \in Neighbours(agent_locations[a]) \cap Cells :
              agent_maps[a][c] = Unknown
        /\ \E c \in Neighbours(agent_locations[a]) \cap DOMAIN objects :
              c \notin DOMAIN agent_objects[a]

\* C13: in every reachable state every agent's location is inside the map
\* and its authoritative tile is not a Wall; so is the location a step
\* resolved and is about to commit.
C13_OnOpenGround ==
  /\ \A a \in Agents :
        /\ agent_locations[a] \in Cells
        /\ game_map[agent_locations[a]] # Wall
  /\ pc \in {"interact", "check"} =>
        /\ final_loc \in Cells
        /\ game_map[final_loc] # Wall

\* C13 witness: in a step after the first, a move into a Wall cell of the
\* map was resolved and the agent stays where it was.
C13_Witness ==
  /\ pc = "interact"
  /\ dst_loc \in Cells
  /\ game_map[dst_loc] = Wall
  /\ final_loc = current_loc
  /\ step >= 1

\* C14: when the decision function is invoked for the acting agent at loc,
\* every in-bounds cell of the 8-cell Moore neighbourhood of loc is
\* non-Unknown in that agent's private map, every object the authoritative
\* object map holds in those cells is in the agent's private objects at the
\* same key, and the refresh of the step did not reveal the cell loc itself.
\* Stated on the state the call is made in and on the arguments it received.
C14_RefreshedAtDecision ==
  LET loc == step_start.locations[idx]
  IN  /\ pc = "decide" =>
            /\ \A c \in Cells : C6_Adjacent(c, loc) =>
                  /\ agent_maps[idx][c] # Unknown
                  /\ c \in DOMAIN objects =>
                        /\ c \in DOMAIN agent_objects[idx]
                        /\ agent_objects[idx][c] = objects[c]
            /\ agent_maps[idx][loc] = step_start.maps[idx][loc]
      /\ pc \in {"resolve", "interact", "check"} =>
            /\ \A c \in Cells : C6_Adjacent(c, loc) =>
                  /\ step_args.game_map[c] # Unknown
                  /\ c \in DOMAIN step_start.world =>
                        /\ c \in DOMAIN step_args.map_objects
                        /\ step_args.map_objects[c] = step_start.world[c]
            /\ step_args.game_map[loc] = step_start.maps[idx][loc]

\* C14 witness: a decision is about to be invoked on a map whose own cell is
\* still Unknown, with a diagonal neighbour revealed by the step's refresh
\* and an object of a neighbouring cell recorded by it.
C14_Witness ==
  /\ pc = "decide"
  /\ agent_maps[idx][current_loc] = Unknown
  /\ \E c \in Cells :
        /\ c[1] # current_loc[1]
        /\ c[2] # current_loc[2]
        /\ step_start.maps[idx][c] = Unknown
        /\ agent_maps[idx][c] # Unknown
  /\ \E c \in DOMAIN agent_objects[idx] : c \notin DOMAIN step_start.known[idx]

\* C15: a step changes the location and the resource of the acting agent
\* only: no transition of the run changes the location or the resource of
\* an agent other than the one whose turn it is, and none changes the
\* authoritative terrain map or the goal location.
C15_StepFrame ==
  [][/\ \A a \in Agents \ {idx} :
          /\ agent_locations'[a] = agent_locations[a]
          /\ agent_strengths'[a] = agent_strengths[a]
     /\ game_map' = game_map
     /\ goal_loc' = goal_loc
    ]_vars

\* C15 witness: a step of the second agent committed a new location and a
\* new resource for it and ended the run with the others where they began.
C15_Witness ==
  /\ pc = "done"
  /\ status = "AgentWon"
  /\ idx # 0
  /\ agent_locations[idx] # step_start.locations[idx]
  /\ agent_strengths[idx] # step_start.strengths[idx]
  /\ \A a \in Agents \ {idx} : agent_locations[a] = step_start.locations[a]

\* C16: the authoritative object map only loses entries: no transition adds
\* or replaces an object; an entry leaves only in the object interaction of
\* a step, at the cell the acting agent ends on; a StaticMonster leaves only
\* when the draw of that step wins the combat (the agent then holds
\* initial_strength plus the monster's strength) and stays when it loses;
\* the Boss never leaves, so the goal location holds the Boss in every
\* reachable state.
C16_ObjectsOnlyShrink ==
  /\ [](goal_loc \in DOMAIN objects /\ objects[goal_loc] = Boss)
  /\ [][/\ DOMAIN objects' \subseteq DOMAIN objects
        /\ \A c \in DOMAIN objects' : objects'[c] = objects[c]
        /\ \A c \in (DOMAIN objects) \ (DOMAIN objects') :
             /\ pc = "interact"
             /\ c = final_loc
             /\ objects[c].kind \in {"PowerUp", "StaticMonster"}
             /\ objects[c].kind = "StaticMonster" =>
                  /\ draw' * (agent_strengths[idx] + objects[c].val)
                       > DrawDen * agent_strengths[idx]
                  /\ agent_strengths'[idx] = initial_strength + objects[c].val
        /\ (/\ OnMonster
            /\ pc' = "check"
            /\ draw' * (agent_strengths[idx] + objects[final_loc].val)
                 <= DrawDen * agent_strengths[idx]) =>
             final_loc \in DOMAIN objects'
       ]_vars

\* C16 witness: an agent lost a combat and the monster is still on the cell
\* the agent ends on; the Boss is on the goal and no PowerUp is left.
C16_Witness ==
  /\ pc = "check"
  /\ event = "loss"
  /\ final_loc \in DOMAIN objects
  /\ objects[final_loc].kind = "StaticMonster"
  /\ objects[goal_loc] = Boss
  /\ \A c \in DOMAIN objects : objects[c].kind # "PowerUp"

\* C17: resource is non-increasing except on a power-up pickup or a combat
\* win: in every step that removed no object from the authoritative map
\* (the acting agent neither picked up a PowerUp nor won a combat), the
\* acting agent's resource after move resolution and at the end of the step
\* is at most its resource at the start of the step.
C17_NonIncreasing ==
  (pc \in {"interact", "check", "done"} /\ objects = step_start.world) =>
    agent_strengths[idx] <= step_start.strengths[idx]

\* C17 witness: a step after the first moved its agent onto another cell,
\* removed no object and ends with a resource below the one it began with.
C17_Witness ==
  /\ pc = "check"
  /\ step >= 1
  /\ objects = step_start.world
  /\ final_loc # current_loc
  /\ agent_strengths[idx] > 0
  /\ agent_strengths[idx] < step_start.strengths[idx]

\* C18: while the game is Running every agent's resource is at least 1 at
\* the start of every step, and the acting agent's resource right after
\* move resolution is at least 0, so the combat formula is only evaluated
\* with a non-negative resource.
C18_ResourceFloor ==
  /\ (status = "Running" /\ pc = "refresh") =>
        \A a \in Agents : agent_strengths[a] >= 1
  /\ status = "Running" => \A a \in Agents : step_start.strengths[a] >= 1
  /\ pc = "interact" => agent_strengths[idx] >= 0

\* C18 witness: in a step after the first, move resolution left the acting
\* agent with resource 0 on the cell of a StaticMonster.
C18_Witness ==
  /\ OnMonster
  /\ step >= 1
  /\ agent_strengths[idx] = 0
  /\ final_loc # current_loc

\* C20: private maps are sound: in every reachable state, for every agent
\* and every cell, the private value is Unknown or the authoritative tile of
\* the cell, and it is not Unknown only if the cell is one of the eight
\* neighbours of a location at which that agent began a turn of its own.
C20_PrivateMapsSound ==
  \A a \in Agents : \A c \in Cells :
    \/ agent_maps[a][c] = Unknown
    \/ /\ agent_maps[a][c] = game_map[c]
       /\ c \in began_near[a]

\* C20 witness: an agent knows a cell that is no neighbour of where it is
\* now (it began a turn elsewhere before) and has a cell still Unknown.
C20_Witness ==
  \E a \in Agents :
    /\ began_near[a] # {}
    /\ \E c \in Cells :
          /\ agent_maps[a][c] # Unknown
          /\ ~C6_Adjacent(c, agent_locations[a])
    /\ \E c \in Cells : agent_maps[a][c] = Unknown

\* C19: with every non-Wall terrain cost at least 1 (tile_cost is 1, 2, 3)
\* and every decision a valid direction (no AssertionError is ever raised),
\* the run reaches AgentDied or AgentWon after finitely many steps.
C19_ReachesVerdict ==
  [](status # "AssertionError") => <>(status \in {"AgentDied", "AgentWon"})

====
